---------------------------- MODULE Spec2Model ----------------------------
(***************************************************************************)
(* Model of validation/channel/channel_flow.py: the post-processing script *)
(* that runs the solver, loads its CSV result, interpolates the velocity   *)
(* magnitude along the transect x = x_target and saves the profile plot.   *)
(*                                                                         *)
(* Reals are modelled as exact rationals <<num, den>> (den > 0, lowest     *)
(* terms); <<0, 0>> is the float NaN.  A query coordinate may carry a      *)
(* third component k: <<num, den, k>> is the double num/den + k*DBL_EPSILON*)
(* (k = 0 when absent); the arithmetic below reads the first two.          *)
(***************************************************************************)
EXTENDS Integers, Sequences, FiniteSets

\* ------------------------------------------------------------- bounds ----
\* Largest number of rows of the result file that Init draws.
MaxRows == 3
\* Largest resolution, besides the script's own, the transect sampler is
\* applied to on its own.
MaxRes == 6
\* Largest number of sample points griddata is applied to on its own.
MaxPoints == 4

\* ---------------------------------------------------------- rationals ----
Abs(n) == IF n < 0 THEN -n ELSE n

RECURSIVE GCD(_, _)
GCD(a, b) == IF b = 0 THEN a ELSE GCD(b, a % b)

NaN == <<0, 0>>
IsNaN(r) == r[2] = 0

\* The rational n/d in lowest terms with a positive denominator.
Norm(n, d) ==
    LET g == GCD(Abs(n), Abs(d))
        s == IF d < 0 THEN -1 ELSE 1
    IN  <<(s * n) \div g, Abs(d) \div g>>

R(n) == <<n, 1>>

RAdd(a, b) == IF IsNaN(a) \/ IsNaN(b) THEN NaN
              ELSE Norm(a[1] * b[2] + b[1] * a[2], a[2] * b[2])
RSub(a, b) == IF IsNaN(a) \/ IsNaN(b) THEN NaN
              ELSE Norm(a[1] * b[2] - b[1] * a[2], a[2] * b[2])
RMul(a, b) == IF IsNaN(a) \/ IsNaN(b) THEN NaN
              ELSE Norm(a[1] * b[1], a[2] * b[2])
\* Float division: x/0 is not a number the script ever relies on.
RDiv(a, b) == IF IsNaN(a) \/ IsNaN(b) \/ b[1] = 0 THEN NaN
              ELSE Norm(a[1] * b[2], a[2] * b[1])
\* Comparisons with NaN are false, as for floats.
RLt(a, b) == ~IsNaN(a) /\ ~IsNaN(b) /\ a[1] * b[2] < b[1] * a[2]
RLe(a, b) == ~IsNaN(a) /\ ~IsNaN(b) /\ a[1] * b[2] <= b[1] * a[2]
RSign(a) == IF a[1] > 0 THEN 1 ELSE IF a[1] < 0 THEN -1 ELSE 0


\* Square root of a rational whose numerator and denominator are perfect
\* squares (the only magnitudes the drawn velocities produce).
ISqrt(n) == CHOOSE r \in 0..n : r * r = n
RSqrt(a) == IF IsNaN(a) THEN NaN ELSE <<ISqrt(a[1]), ISqrt(a[2])>>

\* ------------------------------------------------ script constants ----
Resolution == 200
x_target == <<9, 2>>
directory == "./validation/channel"
CsvPath == directory \o "/laminar_channel_flow_1.csv"
Required == <<"x", "y", "velocity.x", "velocity.y">>

\* ----------------------------------------------------- pandas / numpy ----
Range(s) == {s[i] : i \in 1..Len(s)}

\* data[name].values: the column's values in row order.
Column(data, name) ==
    LET j == CHOOSE k \in 1..Len(data.columns) : data.columns[k] = name
    IN  [i \in 1..Len(data.rows) |-> data.rows[i][j]]

HasColumn(data, name) == name \in Range(data.columns)

\* Series.min() / Series.max(): NaN for an empty column.
SeriesMin(s) == IF Len(s) = 0 THEN NaN
                ELSE CHOOSE m \in Range(s) : \A v \in Range(s) : RLe(m, v)
SeriesMax(s) == IF Len(s) = 0 THEN NaN
                ELSE CHOOSE m \in Range(s) : \A v \in Range(s) : RLe(v, m)

\* np.sqrt(vel_x**2 + vel_y**2), element-wise.
VelMag(vel_x, vel_y) ==
    [i \in 1..Len(vel_x) |->
        RSqrt(RAdd(RMul(vel_x[i], vel_x[i]), RMul(vel_y[i], vel_y[i])))]

\* linspace as if called with endpoint=False: the step is delta/num and the
\* last sample is not set to stop.
linspace_open(start, stop, num) ==
    IF num < 0 THEN [err |-> "ValueError", val |-> <<>>]
    ELSE [err |-> "none",
          val |-> [i \in 1..num |->
                      RAdd(RMul(R(i - 1), RDiv(RSub(stop, start), R(num))),
                           start)]]

\* np.linspace(start, stop, num) with endpoint=True: ValueError for a
\* negative num; otherwise num samples start + i*step, step = delta/(num-1),
\* the last one overwritten with stop when num > 1.
linspace(start, stop, num) ==
    IF num < 0 THEN [err |-> "ValueError", val |-> <<>>]
    ELSE LET div   == num - 1
             delta == RSub(stop, start)
             step  == IF div > 0 THEN RDiv(delta, R(div)) ELSE NaN
         IN  [err |-> "none",
              val |-> [i \in 1..num |->
                          IF num > 1 /\ i = num THEN stop
                          ELSE IF div > 0
                          THEN RAdd(RMul(R(i - 1), step), start)
                          ELSE RAdd(RMul(R(i - 1), delta), start)]]

\* Lines 21-22: y_interp and the query points (x_target, y_i).
sample_transect(y_min, y_max, resolution, xt) ==
    CHOOSE s \in {[err          |-> ys.err,
                   y_interp     |-> ys.val,
                   query_points |-> [i \in 1..Len(ys.val) |-> <<xt, ys.val[i]>>]]
                  : ys \in {linspace(y_min, y_max, resolution)}} : TRUE

\* ------------------------------------------ scipy.interpolate.griddata ----
\* The orientation of the triangle a b c (points are <<x, y>> of rationals):
\* the sign of (b - a) x (c - a), computed on the integers obtained by
\* scaling each axis with the product of the three denominators.
Orient(a, b, c) ==
    LET xa == a[1][1] * b[1][2] * c[1][2]
        xb == b[1][1] * a[1][2] * c[1][2]
        xc == c[1][1] * a[1][2] * b[1][2]
        ya == a[2][1] * b[2][2] * c[2][2]
        yb == b[2][1] * a[2][2] * c[2][2]
        yc == c[2][1] * a[2][2] * b[2][2]
        n  == (xb - xa) * (yc - ya) - (yb - ya) * (xc - xa)
    IN  IF n > 0 THEN 1 ELSE IF n < 0 THEN -1 ELSE 0

SqDist(a, d) ==
    RAdd(RMul(RSub(a[1], d[1]), RSub(a[1], d[1])),
         RMul(RSub(a[2], d[2]), RSub(a[2], d[2])))

\* d lies strictly inside the circle through the non-collinear a, b, c.
InCircle(a, b, c, d) ==
    LET ax == RSub(a[1], d[1])  ay == RSub(a[2], d[2])  az == SqDist(a, d)
        bx == RSub(b[1], d[1])  by == RSub(b[2], d[2])  bz == SqDist(b, d)
        cx == RSub(c[1], d[1])  cy == RSub(c[2], d[2])  cz == SqDist(c, d)
        det == RAdd(RSub(RMul(ax, RSub(RMul(by, cz), RMul(bz, cy))),
                         RMul(ay, RSub(RMul(bx, cz), RMul(bz, cx)))),
                    RMul(az, RSub(RMul(bx, cy), RMul(by, cx))))
    IN  RSign(det) * Orient(a, b, c) > 0

\* The vertex sets kept by Qhull: one input index per distinct coordinate
\* pair (the other rows at that coordinate are not vertices).
VertexSets(points) ==
    {V \in SUBSET (1..Len(points)) :
        /\ \A i \in 1..Len(points) : \E j \in V : points[j] = points[i]
        /\ \A i, j \in V : points[i] = points[j] => i = j}

\* Triangles <<i, j, k>> over V whose circumcircle holds no vertex strictly
\* inside: the candidate Delaunay simplices.
Simplices(points, V) ==
    {t \in V \X V \X V :
        /\ t[1] < t[2] /\ t[2] < t[3]
        /\ Orient(points[t[1]], points[t[2]], points[t[3]]) # 0
        /\ \A d \in V :
             ~InCircle(points[t[1]], points[t[2]], points[t[3]], points[d])}

\* Some edge of t has all of u on its far side: the interiors are disjoint.
EdgeSeparates(points, t, u) ==
    \E e \in {<<1, 2, 3>>, <<2, 3, 1>>, <<3, 1, 2>>} :
        LET p == points[t[e[1]]]
            q == points[t[e[2]]]
            r == points[t[e[3]]]
        IN  \A m \in 1..3 : Orient(p, q, points[u[m]]) * Orient(p, q, r) <= 0

Overlap(points, t, u) ==
    ~EdgeSeparates(points, t, u) /\ ~EdgeSeparates(points, u, t)

\* Triples of distinct vertices on one line: the simplices of zero area.
Flats(points, V) ==
    {t \in V \X V \X V :
        /\ t[1] < t[2] /\ t[2] < t[3]
        /\ Orient(points[t[1]], points[t[2]], points[t[3]]) = 0}

\* scipy.spatial.Delaunay(points): every triangulation Qhull may return.
\* Co-circular points admit several; which one Qhull picks is its own
\* tie-break, so all are possible outcomes.  Qhull's triangulated output
\* (option Qt) may besides hold degenerate simplices of zero area next to the
\* proper ones; whether it does for a given input is Qhull's own, so every
\* set of them is a possible outcome.  Empty when no triangle exists.
Delaunay(points) ==
    UNION {
        LET S == Simplices(points, V)
        IN  {T \cup F :
               T \in {U \in SUBSET S :
                        /\ U # {}
                        /\ \A t, u \in U : t # u => ~Overlap(points, t, u)
                        /\ \A t \in S \ U : \E u \in U : Overlap(points, t, u)},
               F \in SUBSET Flats(points, V)}
        : V \in VertexSets(points)}

\* Delaunay.transform for simplex t: the inverse of the matrix of edge
\* vectors from the last vertex r, so that the barycentric coordinates of q
\* are c = Tinv (q - r).  For a simplex of zero area the matrix is singular
\* and the entries are NaN.
Transform(points, t) ==
    LET p1 == points[t[1]]
        p2 == points[t[2]]
        r  == points[t[3]]
        m11 == RSub(p1[1], r[1])
        m12 == RSub(p2[1], r[1])
        m21 == RSub(p1[2], r[2])
        m22 == RSub(p2[2], r[2])
        det == RSub(RMul(m11, m22), RMul(m12, m21))
    IN  [t |-> t, r |-> r,
         i11 |-> RDiv(m22, det), i12 |-> RDiv(RSub(R(0), m12), det),
         i21 |-> RDiv(RSub(R(0), m21), det), i22 |-> RDiv(m11, det)]

\* Barycentric coordinates whose third component forgets the second.
Barycentric_short(xf, q) ==
    LET dx == RSub(q[1], xf.r[1])
        dy == RSub(q[2], xf.r[2])
        c1 == RAdd(RMul(xf.i11, dx), RMul(xf.i12, dy))
        c2 == RAdd(RMul(xf.i21, dx), RMul(xf.i22, dy))
    IN  <<c1, c2, RSub(R(1), c1)>>

\* The barycentric coordinates of q in the simplex of transform xf, at the
\* rational part of q.
Barycentric(xf, q) ==
    LET dx == RSub(q[1], xf.r[1])
        dy == RSub(q[2], xf.r[2])
        c1 == RAdd(RMul(xf.i11, dx), RMul(xf.i12, dy))
        c2 == RAdd(RMul(xf.i21, dx), RMul(xf.i22, dy))
    IN  <<c1, c2, RSub(RSub(R(1), c1), c2)>>

\* The multiple of DBL_EPSILON a coordinate is displaced by.
Nudge(a) == IF Len(a) = 3 THEN a[3] ELSE 0

\* The barycentric coordinates are linear in q: the multiples of DBL_EPSILON
\* that the displacement of q adds to each of them.
BarycentricNudge(xf, q) ==
    LET kx == R(Nudge(q[1]))
        ky == R(Nudge(q[2]))
        e1 == RAdd(RMul(xf.i11, kx), RMul(xf.i12, ky))
        e2 == RAdd(RMul(xf.i21, kx), RMul(xf.i22, ky))
    IN  <<e1, e2, RSub(RSub(R(0), e1), e2)>>

\* scipy's eps = 100 * DBL_EPSILON, in units of DBL_EPSILON.
EpsFactor == 100

\* scipy's eps_broad = sqrt(DBL_EPSILON) = 2^26 * DBL_EPSILON, in units of
\* DBL_EPSILON.
EpsBroadFactor == 67108864

\* The multiples of DBL_EPSILON by which rounding in the barycentric sums may
\* displace a computed coordinate from its exact value, for coordinates of
\* the size drawn here.
RoundOff == 8

\* The test c >= -lo, in doubles, of the coordinate c + e*DBL_EPSILON
\* against the leeway lo*DBL_EPSILON.  With slack s = RoundOff it holds
\* whatever the rounding, with s = -RoundOff it holds for some rounding.  The
\* multiples of DBL_EPSILON decide only when the rational parts tie, which is
\* exact for the magnitudes the model forms (far below 1/DBL_EPSILON).  A NaN
\* coordinate passes no test.
NotBelow(c, e, lo, s) ==
    ~IsNaN(c) /\ (RSign(c) > 0 \/ (RSign(c) = 0 /\ RLe(R(s - lo), e)))

\* The test c <= 1 + eps, likewise.
NotAbove(c, e, s) ==
    RLt(c, R(1)) \/ (c = R(1) /\ RLe(e, R(EpsFactor - s)))

\* The test c < -eps of the directed walk, for some rounding.
Below(c, e) ==
    ~IsNaN(c) /\ (RSign(c) < 0
                  \/ (RSign(c) = 0 /\ RLt(e, R(RoundOff - EpsFactor))))

\* The coordinates of q in every simplex of xfs: the simplex, the
\* barycentric coordinates c at the rational part of q and the multiples e
\* of DBL_EPSILON its displacement adds to them.
Coordinates(xfs, q) ==
    {[xf |-> xf, c |-> Barycentric(xf, q), e |-> BarycentricNudge(xf, q)]
     : xf \in xfs}

\* _barycentric_inside: every barycentric coordinate of q is within eps of
\* [0, 1]; the coordinates of the vertices in wide have the leeway eps_broad
\* below 0 instead.
BarycentricInside(b, wide, s) ==
    \A j \in 1..3 :
        /\ NotBelow(b.c[j], b.e[j],
                    IF j \in wide THEN EpsBroadFactor ELSE EpsFactor, s)
        /\ NotAbove(b.c[j], b.e[j], s)

\* min_bound and max_bound of the triangulation: the bounding box of the
\* input points, axis by axis.
Bounds(points) ==
    [ax \in 1..2 |->
        [lo |-> SeriesMin([i \in 1..Len(points) |-> points[i][ax]]),
         hi |-> SeriesMax([i \in 1..Len(points) |-> points[i][ax]])]]

\* _is_point_fully_outside: q is more than eps outside the bounding box of
\* the input points on some axis (a comparison of the query coordinate with
\* min_bound - eps and max_bound + eps, which no rounding enters).
FullyOutside(box, q) ==
    \E ax \in 1..2 :
        LET lo == box[ax].lo
            hi == box[ax].hi
            k  == Nudge(q[ax])
        IN  \/ RLt(q[ax], lo)
            \/ RLt(hi, q[ax])
            \/ q[ax][1] = lo[1] /\ q[ax][2] = lo[2] /\ k < -EpsFactor
            \/ q[ax][1] = hi[1] /\ q[ax][2] = hi[2] /\ k > EpsFactor

\* Delaunay.neighbors: the simplices of tri across the facet of t opposite
\* its j-th vertex, those that share the facet's two vertices.
Neighbors(tri, t, j) ==
    {u \in tri :
        u # t /\ \A m \in (1..3) \ {j} : \E n \in 1..3 : u[n] = t[m]}

\* The simplex of transform xf has zero area (its transform is NaN).
Degenerate(xf) == IsNaN(xf.i11)

\* The hull facets of the simplices xfs, each as <<simplex, vertex opposite>>:
\* the facets with no neighbor (-1).
HullFacets(xfs) ==
    {f \in xfs \X (1..3) : Neighbors({u.t : u \in xfs}, f[1].t, f[2]) = {}}

\* The facets of proper simplices across which a degenerate simplex lies.
BroadFacets(xfs) ==
    {f \in xfs \X (1..3) :
        /\ ~Degenerate(f[1])
        /\ \E u \in xfs :
              Degenerate(u) /\ u.t \in Neighbors({v.t : v \in xfs}, f[1].t, f[2])}

\* The directed walk of find_simplex gives up (-1) in a simplex where q has
\* a barycentric coordinate below -eps across a hull facet.
BailsOut(hull, bs) ==
    \E b \in bs : \E j \in 1..3 :
        <<b.xf, j>> \in hull /\ Below(b.c[j], b.e[j])

\* _find_simplex_bruteforce accepts a proper simplex that holds q within
\* eps, or within eps_broad towards a degenerate neighbor.
BruteForce(broad, b, s) ==
    /\ ~Degenerate(b.xf)
    /\ \/ BarycentricInside(b, {}, s)
       \/ \E j \in 1..3 :
             <<b.xf, j>> \in broad /\ BarycentricInside(b, {j}, s)

\* LinearNDInterpolator.__call__ at one query point, in the triangulation
\* d = [box, xfs, hull, broad]: the possible results.  find_simplex looks
\* for a simplex whose barycentric coordinates of q are all within eps of
\* [0, 1], walking from simplex to neighbor; a walk that meets a degenerate
\* simplex falls back to the brute-force search, which grants eps_broad
\* towards degenerate neighbors.  The vertex values of the simplex found are
\* combined with the coordinates; NaN (the default fill_value) when none is
\* found.  A simplex that holds q within eps whatever the rounding is always
\* found, unless the walk first gives up at a hull facet of another simplex;
\* whether a simplex that holds q only for some rounding, or only with
\* eps_broad, is found depends on the rounding and on where the walk passes
\* (Qhull's simplex order and the previous query decide that): both results
\* are possible.  The number is given at the rational part of q: all the
\* simplices that may hold q agree there, and a displacement of q by such
\* multiples of DBL_EPSILON changes it by as much as rounding does.
Interpolate1(d, values, q) ==
    IF FullyOutside(d.box, q) THEN {NaN}
    ELSE UNION {
           LET may  == {b \in bs : BruteForce(d.broad, b, -RoundOff)}
               must == {b \in bs : BarycentricInside(b, {}, RoundOff)}
           IN  (IF may = {} THEN {}
                ELSE UNION {
                       {RAdd(RAdd(RMul(b.c[1], values[b.xf.t[1]]),
                                  RMul(b.c[2], values[b.xf.t[2]])),
                             RMul(b.c[3], values[b.xf.t[3]]))}
                       : b \in {CHOOSE u \in may : TRUE}})
               \cup (IF must = {} \/ BailsOut(d.hull, bs) THEN {NaN} ELSE {})
           : bs \in {Coordinates(d.xfs, q)}}

\* The triangulation as the point location uses it: bounding box, simplex
\* transforms, hull facets and facets with a degenerate neighbor.
DelaunayInfo(points, tri) ==
    CHOOSE d \in {[box |-> Bounds(points), xfs |-> xfs,
                   hull |-> HullFacets(xfs), broad |-> BroadFacets(xfs)]
                  : xfs \in {{Transform(points, t) : t \in tri}}} : TRUE

\* LinearNDInterpolator(points, values, fill_value=nan)(xi): the possible
\* result arrays for the queries xi against the triangulation tri.
LinearNDInterpolator(points, values, tri, xi) ==
    LET n == Len(xi)
    IN  UNION {
          {[i \in 1..n |-> IF i \in N THEN NaN
                           ELSE CHOOSE v \in o[i] : o[i] = {NaN} \/ v # NaN]
           : N \in SUBSET {i \in 1..n : NaN \in o[i] /\ o[i] # {NaN}}}
          : o \in {SubSeq([i \in 1..n |-> Interpolate1(d, values, xi[i])],
                           1, n)
                    : d \in {DelaunayInfo(points, tri)}} }

\* griddata(points, values, xi, method='linear'): the set of results the
\* call can have.  No points: ValueError; no triangle (fewer than three
\* distinct points, or all on one line): QhullError.
griddata(points, values, xi) ==
    LET tris == Delaunay(points)
    IN  IF Len(points) = 0 THEN {[err |-> "ValueError", val |-> <<>>]}
        ELSE IF tris = {} THEN {[err |-> "QhullError", val |-> <<>>]}
        ELSE UNION {{[err |-> "none", val |-> v]
                     : v \in LinearNDInterpolator(points, values, tri, xi)}
                    : tri \in tris}

\* ------------------------------------------------------- file names ----
Digit == <<"0", "1", "2", "3", "4", "5", "6", "7", "8", "9">>

RECURSIVE IntStr(_)
IntStr(n) == IF n < 10 THEN Digit[n + 1]
             ELSE IntStr(n \div 10) \o Digit[(n % 10) + 1]

RECURSIVE FracStr(_, _)
FracStr(n, d) == IF n = 0 THEN ""
                 ELSE Digit[((n * 10) \div d) + 1] \o FracStr((n * 10) % d, d)

\* str() of a non-negative float with a terminating decimal expansion, as
\* the f-strings of lines 30 and 32 format x_target.
FloatStr(r) ==
    IntStr(r[1] \div r[2]) \o "." \o
    (IF r[1] % r[2] = 0 THEN "0" ELSE FracStr(r[1] % r[2], r[2]))

ExePath == "./.build/cfdeez.exe"
PngPath(xt) ==
    directory \o "/laminar_channel_velocity_profile" \o FloatStr(xt) \o ".png"

\* ------------------------------------------------------ drawn inputs ----
Absent == [kind |-> "absent"]
Exe == [kind |-> "exe"]
StalePng == [kind |-> "png", title |-> "stale", x |-> <<>>, y |-> <<>>]

\* Sample coordinates and velocities the result file may hold.  The sites
\* include the unit square (four co-circular points), three points on the
\* line x = 4 and three on the line x + y = 6; every velocity has a rational
\* magnitude.
SiteSeq == <<<<4, 0>>, <<4, 1>>, <<4, 2>>, <<5, 0>>, <<5, 1>>, <<6, 0>>>>
VelSeq == <<<<1, 0>>, <<3, 4>>>>
NChoices == Len(SiteSeq) * Len(VelSeq)
RowChoice(k) == <<SiteSeq[((k - 1) \div Len(VelSeq)) + 1],
                  VelSeq[((k - 1) % Len(VelSeq)) + 1]>>
ReturnCodes == {0, 1}

\* One CSV row under header h for the sample c = <<site, velocity>>.
Row(h, c) ==
    [j \in 1..Len(h) |->
        CASE h[j] = "x" -> R(c[1][1])
          [] h[j] = "y" -> R(c[1][2])
          [] h[j] = "velocity.x" -> R(c[2][1])
          [] h[j] = "velocity.y" -> R(c[2][2])
          [] OTHER -> R(0)]

Csv(h, cs) == [kind |-> "csv", columns |-> h,
               rows |-> [i \in 1..Len(cs) |-> Row(h, cs[i])]]

\* Every list of at most n samples among the first c choices, written in
\* the order of RowChoice (the order of the rows does not enter the
\* interpolation).
Samples(n, c) ==
    UNION {{[i \in 1..m |-> RowChoice(f[i])] :
              f \in {g \in [1..m -> 1..c] :
                       \A i \in 1..(m - 1) : g[i] <= g[i + 1]}}
           : m \in 0..n}

\* The result files drawn hold samples at the sites with x <= 5.
FileChoices == NChoices - Len(VelSeq)

\* Headers lacking one required column.
Without(k) == SubSeq(Required, 1, k - 1) \o SubSeq(Required, k + 1, 4)

CsvFiles ==
    {Csv(Required, cs) : cs \in Samples(MaxRows, FileChoices)}
    \cup {Csv(Required \o <<"pressure">>, cs) : cs \in Samples(1, FileChoices)}
    \cup {Csv(Without(k), cs) : k \in 1..4, cs \in Samples(1, FileChoices)}

\* The result file an earlier run of the solver has left.
StaleCsv == Csv(Required, <<RowChoice(1)>>)

\* ------------------------------------------------------------- state ----
VARIABLES
    pc,              \* the stage about to run, "done" or "aborted"
    error,           \* the uncaught exception that ended the run, or "none"
    fs,              \* the files: path -> content
    returncode,      \* the solver's exit status, -1 before it has exited
    data, points, vel_x, vel_y, vel_mag,
    y_min, y_max, y_interp, query_points, vel_mag_interp,
    trace,           \* the stages executed so far, in order
    written,         \* the paths the script itself has written, in order
    call, ret        \* arguments and result of a function applied on its own

vars == <<pc, error, fs, returncode, data, points, vel_x, vel_y, vel_mag,
          y_min, y_max, y_interp, query_points, vel_mag_interp,
          trace, written, call, ret>>

namespace == <<data, points, vel_x, vel_y, vel_mag,
               y_min, y_max, y_interp, query_points, vel_mag_interp>>

NoData == [kind |-> "csv", columns |-> <<>>, rows |-> <<>>]
Idle == [fn |-> "none"]

Unbound ==
    /\ data = NoData /\ points = <<>> /\ vel_x = <<>> /\ vel_y = <<>>
    /\ vel_mag = <<>> /\ y_min = NaN /\ y_max = NaN /\ y_interp = <<>>
    /\ query_points = <<>> /\ vel_mag_interp = <<>>

Init ==
    /\ pc = "solver"
    /\ error = "none"
    /\ \E exe \in {Absent, Exe}, csv \in {Absent, StaleCsv},
          png \in {Absent, StalePng} :
          fs = [p \in {ExePath, CsvPath, PngPath(x_target)} |->
                   IF p = ExePath THEN exe
                   ELSE IF p = CsvPath THEN csv ELSE png]
    /\ returncode = -1
    /\ Unbound
    /\ trace = <<>>
    /\ written = <<>>
    /\ call = Idle
    /\ ret = Idle

Abort(e) == pc' = "aborted" /\ error' = e

\* A module body that goes from loading straight to rendering.
NextStage_skip(stage) ==
    CASE stage = "solver" -> "load"
      [] stage = "load" -> "render"
      [] stage = "interpolate" -> "render"
      [] stage = "render" -> "done"

\* The module body runs its statements top to bottom: the stage that follows
\* each stage when it raises nothing.
NextStage(stage) ==
    CASE stage = "solver" -> "load"
      [] stage = "load" -> "interpolate"
      [] stage = "interpolate" -> "render"
      [] stage = "render" -> "done"

\* subprocess.run(..., check=True): a non-zero status stops the run.
AfterSolver_checked(rc) == IF rc = 0 THEN "load" ELSE "aborted"

\* Line 10: subprocess.run([...]) without check=True: the stage that follows
\* a solver that exited with status rc.
AfterSolver(rc) == NextStage("solver")

\* Line 10.  The launch raises FileNotFoundError when the binary is missing
\* and the files stay as they were; otherwise the call blocks until the
\* solver exits and returns whatever its status.  The solver creates or
\* overwrites the result file, or exits before it has written it, whichever
\* its status.
RunSolver ==
    /\ pc = "solver"
    /\ trace' = Append(trace, "solver")
    /\ \/ /\ fs[ExePath] = Absent
          /\ Abort("FileNotFoundError")
          /\ UNCHANGED <<returncode, fs>>
       \/ /\ fs[ExePath] # Absent
          /\ \E rc \in ReturnCodes, out \in CsvFiles \cup {fs[CsvPath]} :
                /\ returncode' = rc
                /\ fs' = [fs EXCEPT ![CsvPath] = out]
                /\ pc' = AfterSolver(rc)
          /\ UNCHANGED error
    /\ UNCHANGED <<namespace, written, call, ret>>

\* The first required column data lacks, 0 when it has them all; lines
\* 13-15 index them in this order and the first missing one raises KeyError.
FirstMissing(d) ==
    IF \A k \in 1..4 : HasColumn(d, Required[k]) THEN 0
    ELSE CHOOSE k \in 1..4 :
            /\ ~HasColumn(d, Required[k])
            /\ \A j \in 1..(k - 1) : HasColumn(d, Required[j])

\* Column access that reads a missing column as zeros instead of raising.
read_columns_fill(d, old) ==
    LET col(name) == IF HasColumn(d, name) THEN Column(d, name)
                     ELSE [i \in 1..Len(d.rows) |-> R(0)]
    IN  [err     |-> "none",
         points  |-> [i \in 1..Len(d.rows) |-> <<col("x")[i], col("y")[i]>>],
         vel_x   |-> col("velocity.x"),
         vel_y   |-> col("velocity.y"),
         vel_mag |-> VelMag(col("velocity.x"), col("velocity.y"))]

\* Lines 13-16 on the frame d: the names bound, in order, until the first
\* missing column raises KeyError (old holds the values bound before).
read_columns(d, old) ==
    LET m  == FirstMissing(d)
        xs == Column(d, "x")
        ys == Column(d, "y")
    IN  [err     |-> IF m # 0 THEN "KeyError" ELSE "none",
         points  |-> IF m \in {1, 2} THEN old.points
                     ELSE [i \in 1..Len(d.rows) |-> <<xs[i], ys[i]>>],
         vel_x   |-> IF m \in {1, 2, 3} THEN old.vel_x
                     ELSE Column(d, "velocity.x"),
         vel_y   |-> IF m # 0 THEN old.vel_y ELSE Column(d, "velocity.y"),
         vel_mag |-> IF m # 0 THEN old.vel_mag
                     ELSE VelMag(Column(d, "velocity.x"),
                                 Column(d, "velocity.y"))]

NoColumns == [points |-> <<>>, vel_x |-> <<>>, vel_y |-> <<>>, vel_mag |-> <<>>]

\* Lines 12-16.
LoadResults ==
    /\ pc = "load"
    /\ trace' = Append(trace, "load")
    /\ IF fs[CsvPath] = Absent
       THEN /\ Abort("FileNotFoundError")
            /\ UNCHANGED <<data, points, vel_x, vel_y, vel_mag>>
       ELSE \E c \in {read_columns(fs[CsvPath],
                        [points |-> points, vel_x |-> vel_x,
                         vel_y |-> vel_y, vel_mag |-> vel_mag])} :
                /\ data' = fs[CsvPath]
                /\ points' = c.points
                /\ vel_x' = c.vel_x
                /\ vel_y' = c.vel_y
                /\ vel_mag' = c.vel_mag
                /\ IF c.err # "none" THEN Abort(c.err)
                   ELSE pc' = NextStage("load") /\ UNCHANGED error
    /\ UNCHANGED <<fs, returncode, y_min, y_max, y_interp, query_points,
                   vel_mag_interp, written, call, ret>>

\* Lines 18-23.
InterpolateField ==
    /\ pc = "interpolate"
    /\ trace' = Append(trace, "interpolate")
    /\ y_min' = SeriesMin(Column(data, "y"))
    /\ y_max' = SeriesMax(Column(data, "y"))
    /\ \E s \in {sample_transect(y_min', y_max', Resolution, x_target)} :
          /\ y_interp' = s.y_interp
          /\ query_points' = s.query_points
    /\ \E out \in griddata(points, vel_mag, query_points') :
          /\ vel_mag_interp' = out.val
          /\ IF out.err # "none" THEN Abort(out.err)
             ELSE pc' = NextStage("interpolate") /\ UNCHANGED error
    /\ UNCHANGED <<fs, returncode, data, points, vel_x, vel_y, vel_mag,
                   written, call, ret>>

\* Lines 27-30: what the figure shows.
Figure(xs, ys, xt) ==
    [kind |-> "png", title |-> "velocity profile at x = " \o FloatStr(xt),
     x |-> xs, y |-> ys]

\* A file name that does not embed x_target.
SavePath_fixed == directory \o "/laminar_channel_velocity_profile.png"

\* Line 32: the file savefig writes.
SavePath == PngPath(x_target)

\* Lines 25-32.
RenderProfile ==
    /\ pc = "render"
    /\ trace' = Append(trace, "render")
    /\ fs' = [p \in DOMAIN fs \cup {SavePath} |->
                 IF p = SavePath
                 THEN Figure(y_interp, vel_mag_interp, x_target)
                 ELSE fs[p]]
    /\ written' = Append(written, SavePath)
    /\ pc' = NextStage("render")
    /\ UNCHANGED <<error, returncode, namespace, call, ret>>

Next == RunSolver \/ LoadResults \/ InterpolateField \/ RenderProfile

Spec == Init /\ [][Next]_vars

\* ------------------------------- the transect sampler applied on its own ----
YValues == {<<0, 1>>, <<1, 2>>, <<1, 1>>, <<2, 1>>}
XTargets == {x_target, <<0, 1>>}
\* Line 21 samples at the resolution 200; the smaller resolutions drawn are
\* those the sampling rule is stated for (at least 2).
Resolutions == (2..MaxRes) \cup {Resolution}

NoPipeline ==
    /\ pc = "call" /\ error = "none" /\ fs = <<>> /\ returncode = -1
    /\ Unbound /\ trace = <<>> /\ written = <<>>

InitSampler ==
    /\ NoPipeline
    /\ \E lo \in YValues, hi \in YValues, n \in Resolutions, xt \in XTargets :
          /\ RLe(lo, hi)
          /\ call = [fn |-> "sample_transect", y_min |-> lo, y_max |-> hi,
                     resolution |-> n, x_target |-> xt]
    /\ ret = Idle

ApplySampler ==
    /\ call.fn = "sample_transect"
    /\ ret = Idle
    /\ ret' = sample_transect(call.y_min, call.y_max, call.resolution,
                              call.x_target)
    /\ UNCHANGED <<pc, error, fs, returncode, namespace, trace, written, call>>

SpecSampler == InitSampler /\ [][ApplySampler]_vars

\* ----------------------------------------- griddata applied on its own ----
QueryX == <<<<4, 1>>, <<9, 2>>, <<5, 1>>, <<11, 2>>>>
QueryY == <<<<-1, 2>>, <<0, 1>>, <<1, 2>>, <<1, 1>>, <<3, 2>>, <<2, 1>>>>
\* Queries displaced off the hull of drawn sites by multiples of
\* DBL_EPSILON: just below y = 0, further below it, left of x = 4 by eps,
\* just right of the corner (5, 0), and beyond the middle of the edge from
\* (4, 2) to (5, 1) by less and by more than eps_broad.
QueryNear == <<<<<<9, 2>>, <<0, 1, -5>>>>,
               <<<<9, 2>>, <<0, 1, -150>>>>,
               <<<<4, 1, -100>>, <<1, 2>>>>,
               <<<<5, 1, 60>>, <<0, 1>>>>,
               <<<<9, 2, 1000>>, <<3, 2>>>>,
               <<<<9, 2, 150000000>>, <<3, 2>>>>>>
Queries == [k \in 1..(Len(QueryX) * Len(QueryY)) |->
               <<QueryX[((k - 1) \div Len(QueryY)) + 1],
                 QueryY[((k - 1) % Len(QueryY)) + 1]>>] \o QueryNear

InitInterp ==
    /\ NoPipeline
    /\ \E cs \in Samples(MaxPoints, NChoices) :
          \E c \in {read_columns(Csv(Required, cs), NoColumns)} :
             call = [fn |-> "griddata", points |-> c.points,
                     values |-> c.vel_mag, xi |-> Queries]
    /\ ret = Idle

ApplyGriddata ==
    /\ call.fn = "griddata"
    /\ ret = Idle
    /\ ret' \in griddata(call.points, call.values, call.xi)
    /\ UNCHANGED <<pc, error, fs, returncode, namespace, trace, written, call>>

SpecInterp == InitInterp /\ [][ApplyGriddata]_vars

\* ------------------------------------------------------------ claims ----
Sampled == call.fn = "sample_transect" /\ ret # Idle
Gridded == call.fn = "griddata" /\ ret # Idle
Ran(stage) == stage \in Range(trace)

\* The side of the line a b the query q is on, its displacement by
\* multiples of DBL_EPSILON deciding when its rational part is on the line.
OrientQuery(a, b, q) ==
    LET o == Orient(a, b, q)
    IN  IF o # 0 THEN o
        ELSE RSign(RSub(RMul(RSub(b[1], a[1]), R(Nudge(q[2]))),
                        RMul(RSub(b[2], a[2]), R(Nudge(q[1])))))

\* q lies in the closed, non-degenerate triangle a b c.
InTriangle(q, a, b, c) ==
    LET o == Orient(a, b, c)
    IN  /\ o # 0
        /\ OrientQuery(a, b, q) * o >= 0
        /\ OrientQuery(b, c, q) * o >= 0
        /\ OrientQuery(c, a, q) * o >= 0

\* Some three of the points are not on one line.
NonCollinear(pts) ==
    \E i, j, k \in 1..Len(pts) : Orient(pts[i], pts[j], pts[k]) # 0

\* q lies in the convex hull of pts (the union of the triangles spanned by
\* three of them, when pts is not collinear).
InHull(q, pts) ==
    \E i, j, k \in 1..Len(pts) : InTriangle(q, pts[i], pts[j], pts[k])

\* C1: for y_min < y_max and resolution n >= 2 the transect sampler returns
\* exactly n query points, all with x = x_target, the first y equal to y_min,
\* the last equal to y_max, and y_i = y_min + i*(y_max - y_min)/(n - 1);
\* y_min = 0, y_max = 1, n = 5 gives 0, 0.25, 0.5, 0.75, 1.
C1_TransectSamples ==
    (Sampled /\ call.resolution >= 2 /\ RLt(call.y_min, call.y_max)) =>
        LET n  == call.resolution
            qp == ret.query_points
        IN  /\ ret.err = "none"
            /\ Len(qp) = n
            /\ \A i \in 1..n :
                  /\ qp[i][1] = call.x_target
                  /\ qp[i][2] =
                       RAdd(call.y_min,
                            RDiv(RMul(R(i - 1), RSub(call.y_max, call.y_min)),
                                 R(n - 1)))
            /\ qp[1][2] = call.y_min
            /\ qp[n][2] = call.y_max
            /\ (call.y_min = R(0) /\ call.y_max = R(1) /\ n = 5) =>
                  ret.y_interp = <<<<0, 1>>, <<1, 4>>, <<1, 2>>, <<3, 4>>, <<1, 1>>>>

C1_Witness ==
    /\ Sampled /\ call.resolution = 5
    /\ call.y_min = R(0) /\ call.y_max = R(1)
    /\ Len(ret.query_points) = 5
    /\ ret.query_points[2] = <<call.x_target, <<1, 4>>>>

\* C2: whenever the interpolator returns values, the value of every query
\* point outside the convex hull of the input points is NaN, never a number.
C2_OutsideHullUndefined ==
    (Gridded /\ ret.err = "none") =>
        \A i \in 1..Len(call.xi) :
            ~InHull(call.xi[i], call.points) => IsNaN(ret.val[i])

\* C3 as claimed: with at least 3 non-collinear points, interpolating at the
\* coordinates of any input sample returns that sample's own magnitude.
C3_ExactAtEverySample ==
    (Gridded /\ ret.err = "none" /\ NonCollinear(call.points)) =>
        \A k \in 1..Len(call.points), i \in 1..Len(call.xi) :
            call.xi[i] = call.points[k] => ret.val[i] = call.values[k]

\* C3 as amended: with at least 3 non-collinear points, interpolating at the
\* coordinates of an input sample returns the magnitude of a sample at those
\* coordinates: the sample's own when no other sample shares its coordinates.
C3_ExactAtSampleCoordinates ==
    (Gridded /\ ret.err = "none" /\ NonCollinear(call.points)) =>
        \A k \in 1..Len(call.points), i \in 1..Len(call.xi) :
            call.xi[i] = call.points[k] =>
                \E m \in 1..Len(call.points) :
                    /\ call.points[m] = call.points[k]
                    /\ ret.val[i] = call.values[m]

C3_Witness ==
    /\ Gridded /\ ret.err = "none" /\ NonCollinear(call.points)
    /\ \E k, m \in 1..Len(call.points), i \in 1..Len(call.xi) :
          /\ k # m
          /\ call.points[k] = call.points[m]
          /\ call.values[k] # call.values[m]
          /\ call.xi[i] = call.points[k]
          /\ ret.val[i] = call.values[m]
    /\ \E k \in 1..Len(call.points), i \in 1..Len(call.xi) :
          /\ \A m \in 1..Len(call.points) :
                call.points[m] = call.points[k] => m = k
          /\ call.xi[i] = call.points[k]
          /\ ret.val[i] = call.values[k]

\* C5 as claimed: when the loaded points hold no 3 non-collinear points, the
\* interpolation stage completes, every query resolves to NaN and the run
\* goes on to rendering.
C5_DegenerateYieldsUndefined ==
    (Ran("interpolate") /\ ~NonCollinear(points)) =>
        /\ pc \in {"render", "done"}
        /\ Len(vel_mag_interp) = Resolution
        /\ \A i \in 1..Len(vel_mag_interp) : IsNaN(vel_mag_interp[i])

\* C6: when the result file lacks a required column, loading raises (pandas'
\* KeyError), the run is aborted there, no interpolation is performed and no
\* image is written.
C6_MissingColumnAborts ==
    (/\ Ran("load")
     /\ fs[CsvPath].kind = "csv"
     /\ \E k \in 1..4 : ~HasColumn(fs[CsvPath], Required[k])) =>
        /\ pc = "aborted"
        /\ error = "KeyError"
        /\ ~Ran("interpolate") /\ ~Ran("render")
        /\ vel_mag_interp = <<>>
        /\ written = <<>>
        /\ fs[PngPath(x_target)] \in {Absent, StalePng}

C6_Witness ==
    /\ Ran("load")
    /\ fs[CsvPath].kind = "csv"
    /\ ~HasColumn(fs[CsvPath], "velocity.y")
    /\ Len(fs[CsvPath].rows) = 1
    /\ pc = "aborted"
    /\ error = "KeyError"

StageOrder == <<"solver", "load", "interpolate", "render">>

\* C7: the stages run in the order solver, load, interpolate, render: the
\* stages executed are always an initial part of that order, each at most
\* once, the stage about to run is the next one, and a finished run has
\* executed all four.
C7_StagesInOrder ==
    /\ Len(trace) <= Len(StageOrder)
    /\ trace = SubSeq(StageOrder, 1, Len(trace))
    /\ pc \in Range(StageOrder) => StageOrder[Len(trace) + 1] = pc
    /\ pc = "done" => trace = StageOrder

C7_Witness == pc = "done" /\ trace = StageOrder /\ error = "none"

ExpectedPng == "./validation/channel/laminar_channel_velocity_profile4.5.png"

\* C9: a run that has rendered has written exactly one file, the image at the
\* path embedding x_target, whose content is the new figure whatever was
\* there; the other files are as the solver left them, and before rendering
\* the script has written nothing.
C9_OneImageWritten ==
    /\ pc = "done" =>
          /\ written = <<ExpectedPng>>
          /\ DOMAIN fs = {ExePath, CsvPath, ExpectedPng}
          /\ fs[ExpectedPng] = Figure(y_interp, vel_mag_interp, x_target)
          /\ fs[CsvPath] = data
          /\ fs[ExePath] = Exe
    /\ pc # "done" =>
          /\ written = <<>>
          /\ fs[ExpectedPng] \in {Absent, StalePng}

C9_Witness ==
    /\ pc = "done"
    /\ written = <<ExpectedPng>>
    /\ fs[ExpectedPng].kind = "png"
    /\ fs[ExpectedPng].title = "velocity profile at x = 4.5"
    /\ Len(fs[ExpectedPng].y) = Resolution

\* C10: once the solver has exited, whatever its status, the run is at or
\* past the loading stage: the status never stops it.
C10_ExitStatusIgnored ==
    returncode # -1 => (pc = "load" \/ Ran("load"))

C10_Witness == returncode = 1 /\ pc = "done" /\ trace = StageOrder

=============================================================================
